---- MODULE Spec2Model ----
(***************************************************************************)
(* A model of the news aggregator of main.go: the rule catalog             *)
(* (readParsingRules), the extraction pipeline (loadNewsList,              *)
(* extractEntity, convertToAbsURL), the per-rule updater goroutines        *)
(* (startUpdaters, updateNewsPeriodically, updateNews), the SQLite store   *)
(* (openDatabase, insertNewsItem, getNews) and the search handler          *)
(* (searchHandler).                                                        *)
(*                                                                         *)
(* A Go string is a sequence of one-character strings, so that substring   *)
(* search and URL parsing are computed and not assumed.                    *)
(***************************************************************************)
EXTENDS Integers, Sequences, FiniteSets, TLC

----------------------------------------------------------------------------
(* Strings *)

Letters ==
    {"a","b","c","d","e","f","g","h","i","j","k","l","m",
     "n","o","p","q","r","s","t","u","v","w","x","y","z"}

Digits == {"0","1","2","3","4","5","6","7","8","9"}

HexDigits == Digits \cup {"a","b","c","d","e","f"}

\* strings.Index(s, c) for a one-byte c, 1-based; 0 when c does not occur
IndexByte(s, c) ==
    IF \E i \in 1..Len(s) : s[i] = c
    THEN CHOOSE i \in 1..Len(s) : s[i] = c /\ \A j \in 1..(i-1) : s[j] # c
    ELSE 0

\* strings.LastIndex(s, c) for a one-byte c, 1-based; 0 when c does not occur
LastIndexByte(s, c) ==
    IF \E i \in 1..Len(s) : s[i] = c
    THEN CHOOSE i \in 1..Len(s) : s[i] = c /\ \A j \in (i+1)..Len(s) : s[j] # c
    ELSE 0

\* strings.Count(s, c) for a one-byte c
CountByte(s, c) == Cardinality({i \in 1..Len(s) : s[i] = c})

\* s[from:] of Go with a 1-based first index
Tail1(s, from) == SubSeq(s, from, Len(s))

\* strings.Cut(s, c): the text before the first c, the text after it, found
CutByte(s, c) ==
    LET i == IndexByte(s, c)
    IN  IF i = 0 THEN [before |-> s, after |-> <<>>, found |-> FALSE]
        ELSE [before |-> SubSeq(s, 1, i-1), after |-> Tail1(s, i+1), found |-> TRUE]

\* strings.HasPrefix(s, p)
HasPrefix(s, p) == Len(s) >= Len(p) /\ SubSeq(s, 1, Len(p)) = p

----------------------------------------------------------------------------
(* net/url, as convertToAbsURL uses it.  Strings of the model hold no      *)
(* user info, no bracketed host and no byte that String() would escape.    *)

\* the byte getScheme's loop stops at: the first that is no letter and is
\* not a digit, +, - or . past the first byte; 0 when the loop runs out
schemeStop(rawURL) ==
    LET stops(i) ==
            /\ rawURL[i] \notin Letters
            /\ \/ rawURL[i] \notin (Digits \cup {"+", "-", "."})
               \/ i = 1
    IN  IF \E i \in 1..Len(rawURL) : stops(i)
        THEN CHOOSE i \in 1..Len(rawURL) :
                 stops(i) /\ \A j \in 1..(i-1) : ~stops(j)
        ELSE 0

\* getScheme's return at the byte k its loop stopped at
schemeAt(rawURL, k) ==
    IF k # 0 /\ rawURL[k] = ":"
    THEN IF k = 1
         THEN [err |-> TRUE, scheme |-> <<>>, rest |-> <<>>]
         ELSE [err |-> FALSE, scheme |-> SubSeq(rawURL, 1, k-1),
               rest |-> Tail1(rawURL, k+1)]
    ELSE [err |-> FALSE, scheme |-> <<>>, rest |-> rawURL]

\* url.getScheme: the scheme and the rest, or the error of a leading colon
getScheme(rawURL) == schemeAt(rawURL, schemeStop(rawURL))

\* url.unescape's validity check: every % is followed by two hex digits
validEscapes(s) ==
    \A i \in 1..Len(s) :
        s[i] = "%" => /\ i + 2 <= Len(s)
                      /\ s[i+1] \in HexDigits
                      /\ s[i+2] \in HexDigits

\* url.validOptionalPort over the text after the host's last colon
validOptionalPort(host) ==
    \/ LastIndexByte(host, ":") = 0
    \/ \A j \in (LastIndexByte(host, ":") + 1)..Len(host) : host[j] \in Digits

\* url.parseAuthority for an authority without user info
validAuthority(authority) ==
    validOptionalPort(authority) /\ IndexByte(authority, "%") = 0

NoURL ==
    [err |-> TRUE, Scheme |-> <<>>, Opaque |-> <<>>, Host |-> <<>>,
     Path |-> <<>>, ForceQuery |-> FALSE, RawQuery |-> <<>>,
     Fragment |-> <<>>, OmitHost |-> FALSE]

\* url.parse's split of the query: a lone trailing ? forces an empty one
cutQuery(rest) ==
    IF Len(rest) > 0 /\ rest[Len(rest)] = "?" /\ CountByte(rest, "?") = 1
    THEN [rest |-> SubSeq(rest, 1, Len(rest) - 1), query |-> <<>>, force |-> TRUE]
    ELSE [rest |-> CutByte(rest, "?").before, query |-> CutByte(rest, "?").after,
          force |-> FALSE]

\* url.parse's authority and path of a rest that starts with //
parseNetPath(url, auth) ==
    IF ~validAuthority(auth.before) THEN NoURL
    ELSE IF auth.found /\ ~validEscapes(auth.after) THEN NoURL
    ELSE [url EXCEPT !.Host = auth.before,
                     !.Path = IF auth.found THEN <<"/">> \o auth.after ELSE <<>>]

\* url.parse after the scheme and the query are cut off
parseRest(url, rest) ==
    IF ~HasPrefix(rest, <<"/">>) /\ url.Scheme # <<>>
    THEN [url EXCEPT !.Opaque = rest]
    ELSE IF /\ ~HasPrefix(rest, <<"/">>)
            /\ IndexByte(CutByte(rest, "/").before, ":") # 0
    THEN NoURL
    ELSE IF /\ HasPrefix(rest, <<"/", "/">>)
            /\ (url.Scheme # <<>> \/ ~HasPrefix(rest, <<"/", "/", "/">>))
    THEN parseNetPath(url, CutByte(Tail1(rest, 3), "/"))
    ELSE IF ~validEscapes(rest) THEN NoURL
    ELSE [url EXCEPT !.OmitHost = url.Scheme # <<>> /\ HasPrefix(rest, <<"/">>),
                     !.Path = rest]

\* url.parse once getScheme returned sch and the query is cut into cut
parseScheme(sch, cut) ==
    parseRest([NoURL EXCEPT !.err = FALSE, !.Scheme = sch.scheme,
                            !.ForceQuery = cut.force, !.RawQuery = cut.query],
              cut.rest)

\* url.parse(rawURL, false) given getScheme's return
parseWith(rawURL, sch) ==
    IF rawURL = <<"*">> THEN [NoURL EXCEPT !.err = FALSE, !.Path = <<"*">>]
    ELSE IF sch.err THEN NoURL
    ELSE parseScheme(sch, cutQuery(sch.rest))

\* url.parse(rawURL, false): rawURL holds no fragment any more
parseNoFragment(rawURL) == parseWith(rawURL, getScheme(rawURL))

\* (*URL).setFragment
setFragment(url, frag) ==
    IF url.err THEN NoURL
    ELSE IF ~validEscapes(frag) THEN NoURL
    ELSE [url EXCEPT !.Fragment = frag]

\* url.Parse: cut the fragment off, parse the rest, set the fragment
urlParse(rawURL) ==
    setFragment(parseNoFragment(CutByte(rawURL, "#").before),
                CutByte(rawURL, "#").after)

\* (*URL).IsAbs
IsAbs(u) == u.Scheme # <<>>

\* one round of resolvePath's loop: dst is the text written so far, first
\* says that no element was written since the leading slash or a reset
writeElem(elem, dst, first) ==
    IF elem = <<".">> THEN [dst |-> dst, first |-> FALSE]
    ELSE IF elem = <<".", ".">>
    THEN IF LastIndexByte(Tail1(dst, 2), "/") = 0
         THEN [dst |-> <<"/">>, first |-> TRUE]
         ELSE [dst |-> SubSeq(dst, 1, LastIndexByte(Tail1(dst, 2), "/")),
               first |-> first]
    ELSE [dst |-> dst \o (IF first THEN <<>> ELSE <<"/">>) \o elem,
          first |-> FALSE]

\* the loop of url.resolvePath over the elements still to read
RECURSIVE resolveElems(_, _, _)
resolveNext(c, step) ==
    IF c.found THEN resolveElems(c.after, step.dst, step.first)
    ELSE IF c.before = <<".">> \/ c.before = <<".", ".">>
         THEN step.dst \o <<"/">>
         ELSE step.dst

resolveElem(c, dst, first) == resolveNext(c, writeElem(c.before, dst, first))

resolveElems(remaining, dst, first) ==
    resolveElem(CutByte(remaining, "/"), dst, first)

\* resolvePath's result without the second of two leading slashes
trimSlash(r) == IF Len(r) > 1 /\ r[2] = "/" THEN Tail1(r, 2) ELSE r

\* resolvePath's full path: ref, or ref in place of base's last element
fullPath(base, ref) ==
    IF ref = <<>> THEN base
    ELSE IF ref[1] # "/"
         THEN SubSeq(base, 1, LastIndexByte(base, "/")) \o ref
         ELSE ref

resolveFull(full) ==
    IF full = <<>> THEN <<>>
    ELSE trimSlash(resolveElems(full, <<"/">>, TRUE))

\* url.resolvePath(base, ref)
resolvePath(base, ref) == resolveFull(fullPath(base, ref))

\* (*URL).ResolveReference
ResolveReference(u, ref) ==
    LET url == [ref EXCEPT !.Scheme = IF ref.Scheme = <<>> THEN u.Scheme ELSE @]
        inherit == ref.Path = <<>> /\ ~ref.ForceQuery /\ ref.RawQuery = <<>>
        url2 == [url EXCEPT
                   !.RawQuery = IF inherit THEN u.RawQuery ELSE @,
                   !.Fragment = IF inherit /\ ref.Fragment = <<>>
                                THEN u.Fragment ELSE @]
    IN  IF ref.Scheme # <<>> \/ ref.Host # <<>>
        THEN [url EXCEPT !.Path = resolvePath(ref.Path, <<>>)]
        ELSE IF ref.Opaque # <<>>
        THEN [url EXCEPT !.Host = <<>>, !.Path = <<>>]
        ELSE IF ref.Path = <<>> /\ u.Opaque # <<>>
        THEN [url2 EXCEPT !.Opaque = u.Opaque, !.Host = <<>>, !.Path = <<>>]
        ELSE [url2 EXCEPT !.Host = u.Host,
                          !.Path = resolvePath(u.Path, ref.Path)]

\* (*URL).String
urlString(u) ==
    LET scheme == IF u.Scheme # <<>> THEN u.Scheme \o <<":">> ELSE <<>>
        host == IF (u.Scheme # <<>> \/ u.Host # <<>>)
                   /\ ~(u.OmitHost /\ u.Host = <<>>)
                THEN (IF u.Host # <<>> \/ u.Path # <<>>
                      THEN <<"/", "/">> ELSE <<>>) \o u.Host
                ELSE <<>>
        slash == IF u.Path # <<>> /\ u.Path[1] # "/" /\ u.Host # <<>>
                 THEN <<"/">> ELSE <<>>
        dot == IF scheme = <<>> /\ host = <<>> /\ slash = <<>>
                  /\ IndexByte(CutByte(u.Path, "/").before, ":") # 0
               THEN <<".", "/">> ELSE <<>>
        body == IF u.Opaque # <<>> THEN u.Opaque
                ELSE host \o slash \o dot \o u.Path
        query == IF u.ForceQuery \/ u.RawQuery # <<>>
                 THEN <<"?">> \o u.RawQuery ELSE <<>>
        fragment == IF u.Fragment # <<>> THEN <<"#">> \o u.Fragment ELSE <<>>
    IN  scheme \o body \o query \o fragment

\* convertToAbsURL once both URLs are parsed: url is the link's, ref the
\* base's as (*URL).Parse of the link read it
convertParsed(url, ref, linkURL) ==
    IF url.err THEN [err |-> TRUE, url |-> <<>>]
    ELSE IF ref.err THEN [err |-> TRUE, url |-> <<>>]
    ELSE IF ~IsAbs(url)
         THEN [err |-> FALSE,
               url |-> urlString(ResolveReference(ResolveReference(url, ref), url))]
         ELSE [err |-> FALSE, url |-> linkURL]

\* a conversion that checks that both URLs parse and returns the link as
\* it is
convertToAbsURLUnresolved(baseURL, linkURL) ==
    IF urlParse(linkURL).err \/ urlParse(baseURL).err
    THEN [err |-> TRUE, url |-> <<>>]
    ELSE [err |-> FALSE, url |-> linkURL]

\* convertToAbsURL.  The local variable url shadows the package, so the base
\* is parsed by the method (*URL).Parse of the link: the link's URL resolves
\* the parsed base as a reference before the base resolves the link.
convertToAbsURL(baseURL, linkURL) ==
    convertParsed(urlParse(linkURL), urlParse(baseURL), linkURL)

----------------------------------------------------------------------------
(* htmlquery over a parsed page.  A page is the sequence of its elements   *)
(* in document order; an element has a name, which is what an XPath        *)
(* expression of the rules selects by, and child elements with attributes  *)
(* and text.                                                               *)

\* htmlquery.Find(doc, expr): the elements expr selects, in document order
RECURSIVE Find(_, _)
Find(doc, expr) ==
    IF doc = <<>> THEN <<>>
    ELSE (IF Head(doc).name = expr THEN <<Head(doc)>> ELSE <<>>)
         \o Find(Tail(doc), expr)

\* htmlquery.FindOne(node, expr): the first child expr selects, or none
FindOne(node, expr) ==
    LET found == Find(node.children, expr)
    IN  IF found = <<>> THEN <<>> ELSE <<Head(found)>>

\* htmlquery.SelectAttr(node, name): the attribute's value, "" when absent
SelectAttr(node, name) ==
    LET i == IF \E k \in 1..Len(node.attrs) : node.attrs[k].name = name
             THEN CHOOSE k \in 1..Len(node.attrs) :
                      /\ node.attrs[k].name = name
                      /\ \A j \in 1..(k-1) : node.attrs[j].name # name
             ELSE 0
    IN  IF i = 0 THEN <<>> ELSE node.attrs[i].value

\* htmlquery.InnerText(node)
InnerText(node) == node.text

\* extractEntity(parentNode, rule)
extractEntity(parentNode, rule) ==
    LET node == FindOne(parentNode, rule.XPathExpr)
    IN  IF node = <<>> THEN <<>>
        ELSE IF rule.Attribute # <<>>
             THEN SelectAttr(node[1], rule.Attribute)
             ELSE InnerText(node[1])

----------------------------------------------------------------------------
(* The strings of the model *)

sHref == <<"h","r","e","f">>
sA == <<"a">>
sItem == <<"i","t","e","m">>
sNav == <<"n","a","v">>
sX == <<"x">>
sY == <<"y">>
sXY == <<"x","y">>
urlPageI == <<"h","t","t","p",":","/","/","e","/","n","/","i">>
urlPageJ == <<"h","t","t","p",":","/","/","e","/","n","/","j">>
urlArticleA == <<"h","t","t","p",":","/","/","e","/","n","/","a">>
sBadEscape == <<"%","z","z">>

\* an anchor <a href=...>text</a>, and one without href
Anchor(href, text) == [name |-> sA, attrs |-> <<[name |-> sHref, value |-> href]>>, text |-> text]
AnchorNoHref(text) == [name |-> sA, attrs |-> <<>>, text |-> text]
Element(name, children) == [name |-> name, children |-> children]

\* the elements a page of the model is made of
NodeRelX == Element(sItem, <<Anchor(sA, sX)>>)
NodeAbsY == Element(sItem, <<Anchor(urlArticleA, sY)>>)
NodeNoHref == Element(sItem, <<AnchorNoHref(sXY)>>)
NodeBad == Element(sItem, <<Anchor(sBadEscape, sX)>>)
NodeEmpty == Element(sItem, <<>>)
NodeNav == Element(sNav, <<Anchor(sA, sY)>>)

\* the pages a source may serve when it is fetched
Pages(sourceURL) ==
    IF sourceURL = urlPageI
    THEN { <<NodeRelX, NodeNoHref>>, <<NodeRelX, NodeBad>>, <<NodeBad, NodeRelX>> }
    ELSE { <<NodeNav, NodeAbsY>> }

\* rules.json as the operator may have written it
LinkRule == [XPathExpr |-> sA, Attribute |-> sHref]
TitleRule == [XPathExpr |-> sA, Attribute |-> <<>>]
Rule(interval, sourceURL) ==
    [Interval |-> interval, URL |-> sourceURL, NewsNodesXPathExpr |-> sItem,
     LinkRule |-> LinkRule, TitleRule |-> TitleRule]

RuleFiles ==
    { [readable |-> FALSE, parses |-> FALSE, rules |-> <<>>],
      [readable |-> TRUE, parses |-> FALSE, rules |-> <<>>],
      [readable |-> TRUE, parses |-> TRUE,
       rules |-> <<Rule(1, urlPageI), Rule(1, urlPageJ)>>],
      [readable |-> TRUE, parses |-> TRUE, rules |-> <<Rule(0, urlPageJ)>>] }

\* the search terms a request may carry
Terms == { <<>>, sY }

\* the goroutines startUpdaters may start: one per rule of the longest file
MaxRules == 2
RuleIds == 1..MaxRules

\* the wall clock of CURRENT_TIMESTAMP counts seconds up to MaxClock
MaxClock == 1

----------------------------------------------------------------------------
(* The state *)

VARIABLES
    mainPc,        \* where main's goroutine is in Start
    exit,          \* "none" while the process runs, else why it ended
    parsingRules,  \* app.parsingRules
    db,            \* app.db: "nil" or "open"
    news,          \* the rows of table news, in insertion order
    clock,         \* the wall clock CURRENT_TIMESTAMP reads, in seconds
    task,          \* per rule: the goroutine of updateNewsPeriodically: where
                   \* it is, its ticker, the page of a failed load, the
                   \* items of the cycle, how many the loop has taken, err
    tick,          \* per rule: a tick waits in the channel ticker.C
    request,       \* the search request in flight: the handler's err, and the
                   \* response's status, JSON items and plain text
    seen,          \* what a 200 response answers: the query, the rows then
    call           \* a call of convertToAbsURL or loadNewsList taken by
                   \* itself: its arguments and its return

vars == <<mainPc, exit, parsingRules, db, news, clock, task, tick, request, seen,
          call>>

\* a goroutine not started, or between two cycles
Idle(pc, ticker) ==
    [pc |-> pc, ticker |-> ticker, doc |-> <<>>, items |-> <<>>, i |-> 0,
     err |-> "nil"]

NoRequest == [pc |-> "none", err |-> "nil", status |-> 0, items |-> <<>>, text |-> "nil"]

NotSeen == [q |-> <<>>, rows |-> <<>>]

NoCall == [fn |-> "none", baseURL |-> <<>>, linkURL |-> <<>>, doc |-> <<>>,
           ret |-> <<>>]

Init ==
    /\ mainPc = "readParsingRules"
    /\ exit = "none"
    /\ parsingRules = <<>>
    /\ db = "nil"
    /\ news = <<>>
    /\ clock = 0
    /\ task = [r \in RuleIds |-> Idle("none", FALSE)]
    /\ tick = [r \in RuleIds |-> FALSE]
    /\ request = NoRequest
    /\ seen = NotSeen
    /\ call = NoCall

Running == exit = "none"

----------------------------------------------------------------------------
(* Start *)

\* readParsingRules, and Start's return of its error to main's log.Fatal
readParsingRules ==
    /\ Running /\ mainPc = "readParsingRules"
    /\ \E file \in RuleFiles :
          IF file.readable /\ file.parses
          THEN /\ parsingRules' = file.rules
               /\ mainPc' = "openDatabase"
               /\ exit' = exit
          ELSE /\ exit' = "readParsingRules"
               /\ UNCHANGED <<parsingRules, mainPc>>
    /\ UNCHANGED <<db, news, clock, task, tick, request, seen, call>>

\* Start going on to startUpdaters whatever openDatabase returned
openDatabaseUnchecked ==
    /\ Running /\ mainPc = "openDatabase"
    /\ \E ok \in BOOLEAN : db' = IF ok THEN "open" ELSE db
    /\ mainPc' = "startUpdaters"
    /\ UNCHANGED <<exit, parsingRules, news, clock, task, tick, request, seen, call>>

\* openDatabase: CREATE TABLE IF NOT EXISTS keeps the rows there are
openDatabase ==
    /\ Running /\ mainPc = "openDatabase"
    /\ \E ok \in BOOLEAN :
          IF ok
          THEN /\ db' = "open"
               /\ mainPc' = "startUpdaters"
               /\ exit' = exit
          ELSE /\ exit' = "openDatabase"
               /\ UNCHANGED <<db, mainPc>>
    /\ UNCHANGED <<parsingRules, news, clock, task, tick, request, seen, call>>

\* startUpdaters: one goroutine per rule, each about to call updateNews
startUpdaters ==
    /\ Running /\ mainPc = "startUpdaters"
    /\ task' = [r \in RuleIds |->
                   IF r <= Len(parsingRules) THEN Idle("updateNews", FALSE)
                   ELSE task[r]]
    /\ mainPc' = "ListenAndServe"
    /\ UNCHANGED <<exit, parsingRules, db, news, clock, tick, request, seen, call>>

\* http.ListenAndServe: serves, or returns an error that ends the process
ListenAndServe ==
    /\ Running /\ mainPc = "ListenAndServe"
    /\ \E ok \in BOOLEAN :
          IF ok THEN mainPc' = "serving" /\ exit' = exit
          ELSE exit' = "ListenAndServe" /\ mainPc' = mainPc
    /\ UNCHANGED <<parsingRules, db, news, clock, task, tick, request, seen, call>>

----------------------------------------------------------------------------
(* The extraction pipeline *)

\* what htmlquery.LoadURL(url) may return: an error, or one of the pages
Fetches(sourceURL) ==
    {[err |-> TRUE, doc |-> <<>>]}
        \cup {[err |-> FALSE, doc |-> page] : page \in Pages(sourceURL)}

\* the loop of loadNewsList over the item nodes still to read: the first
\* link that does not convert ends it with the error and no items
RECURSIVE loadNewsNodes(_, _, _)
loadNewsNode(rule, nodes, items, abs, title) ==
    IF abs.err THEN [err |-> "convertToAbsURL", items |-> <<>>]
    ELSE loadNewsNodes(rule, Tail(nodes),
                       Append(items, [Link |-> abs.url, Title |-> title]))

loadNewsNodes(rule, nodes, items) ==
    IF nodes = <<>> THEN [err |-> "nil", items |-> items]
    ELSE loadNewsNode(rule, nodes, items,
             convertToAbsURL(rule.URL, extractEntity(Head(nodes), rule.LinkRule)),
             extractEntity(Head(nodes), rule.TitleRule))

\* loadNewsList(rule), given what the fetch of rule.URL returned
loadNewsList(rule, fetched) ==
    IF fetched.err THEN [err |-> "LoadURL", items |-> <<>>]
    ELSE loadNewsNodes(rule, Find(fetched.doc, rule.NewsNodesXPathExpr), <<>>)

\* every rule of the rule files
Rules == UNION {{f.rules[k] : k \in 1..Len(f.rules)} : f \in RuleFiles}

\* the returns loadNewsList(rule) may have, each with the document fetched
Loads ==
    [rule \in Rules |->
        {[doc |-> fetched.doc, loaded |-> loadNewsList(rule, fetched)] :
            fetched \in Fetches(rule.URL)}]

----------------------------------------------------------------------------
(* The store *)

Max(S) == CHOOSE x \in S : \A y \in S : y <= x

\* the id AUTOINCREMENT gives the next row
NextId(rows) == 1 + Max({0} \cup {rows[i].id : i \in 1..Len(rows)})

\* INSERT OR REPLACE in place of INSERT: a row of the same link is rewritten
insertOrReplace(rows, item, now, ioErr) ==
    IF ioErr THEN [err |-> "io", news |-> rows]
    ELSE IF \E i \in 1..Len(rows) : rows[i].link = item.Link
    THEN [err |-> "nil",
          news |-> [i \in 1..Len(rows) |->
                       IF rows[i].link = item.Link
                       THEN [rows[i] EXCEPT !.title = item.Title, !.timestamp = now]
                       ELSE rows[i]]]
    ELSE [err |-> "nil",
          news |-> Append(rows, [id |-> NextId(rows), link |-> item.Link,
                                 title |-> item.Title, timestamp |-> now])]

\* a column link without UNIQUE: every INSERT adds a row
insertNotUnique(rows, item, now, ioErr) ==
    IF ioErr THEN [err |-> "io", news |-> rows]
    ELSE [err |-> "nil",
          news |-> Append(rows, [id |-> NextId(rows), link |-> item.Link,
                                 title |-> item.Title, timestamp |-> now])]

\* INSERT ... ON CONFLICT(link) DO UPDATE SET title: the row of the link
\* takes the new title
insertUpsertTitle(rows, item, now, ioErr) ==
    IF ioErr THEN [err |-> "io", news |-> rows]
    ELSE IF \E i \in 1..Len(rows) : rows[i].link = item.Link
    THEN [err |-> "nil",
          news |-> [i \in 1..Len(rows) |->
                       IF rows[i].link = item.Link
                       THEN [rows[i] EXCEPT !.title = item.Title]
                       ELSE rows[i]]]
    ELSE [err |-> "nil",
          news |-> Append(rows, [id |-> NextId(rows), link |-> item.Link,
                                 title |-> item.Title, timestamp |-> now])]

\* insertNewsItem(item) at time now: the INSERT fails on a link the table
\* holds (UNIQUE) and when the engine cannot write (ioErr); else it adds a
\* row whose timestamp defaults to CURRENT_TIMESTAMP
insertNewsItem(rows, item, now, ioErr) ==
    IF ioErr THEN [err |-> "io", news |-> rows]
    ELSE IF \E i \in 1..Len(rows) : rows[i].link = item.Link
    THEN [err |-> "unique", news |-> rows]
    ELSE [err |-> "nil",
          news |-> Append(rows, [id |-> NextId(rows), link |-> item.Link,
                                 title |-> item.Title, timestamp |-> now])]

\* a match at the start of the title only
instrPrefix(X, Y) == IF HasPrefix(X, Y) THEN 1 ELSE 0

\* SQLite's instr(X, Y): the 1-based place of the first Y in X, else 0
instr(X, Y) ==
    LET at(i) == SubSeq(X, i, i + Len(Y) - 1) = Y
        places == {i \in 1..(Len(X) - Len(Y) + 1) : at(i)}
    IN  IF places = {} THEN 0
        ELSE CHOOSE i \in places : \A j \in places : i <= j

\* the WHERE clause of getNews: none for the empty query
Selected(rows, query) ==
    SelectSeq(rows, LAMBDA row : query = <<>> \/ instr(row.title, query) # 0)

\* ORDER BY timestamp without DESC: oldest first
OrderByTimestampAsc(rows) ==
    {p \in [1..Len(rows) -> 1..Len(rows)] :
        /\ \A i, j \in 1..Len(rows) : i # j => p[i] # p[j]
        /\ \A i, j \in 1..Len(rows) :
              i < j => rows[p[i]].timestamp <= rows[p[j]].timestamp}

\* ORDER BY timestamp DESC: the orders SQLite may return n rows in, as
\* permutations of 1..n; rows of equal timestamp come in any order
OrderByTimestampDesc(rows) ==
    {p \in [1..Len(rows) -> 1..Len(rows)] :
        /\ \A i, j \in 1..Len(rows) : i # j => p[i] # p[j]
        /\ \A i, j \in 1..Len(rows) :
              i < j => rows[p[i]].timestamp >= rows[p[j]].timestamp}

\* a cursor that is not isolated from the writers and reads its first row
\* a second time
getNewsRowTwice(rows, query, fail, order) ==
    LET selected == Selected(rows, query)
        items == [i \in 1..Len(selected) |->
                     [Link |-> selected[order[i]].link,
                      Title |-> selected[order[i]].title]]
    IN  IF fail # "nil" THEN [err |-> fail, items |-> <<>>]
        ELSE [err |-> "nil",
              items |-> IF items = <<>> THEN items ELSE Append(items, items[1])]

\* getNews(query): fail names the call that returns an error, if one does
\* (db.Query, rows.Scan, rows.Err); order is the order the rows come in
getNews(rows, query, fail, order) ==
    LET selected == Selected(rows, query)
    IN  IF fail # "nil" THEN [err |-> fail, items |-> <<>>]
        ELSE [err |-> "nil",
              items |-> [i \in 1..Len(selected) |->
                            [Link |-> selected[order[i]].link,
                             Title |-> selected[order[i]].title]]]

\* the calls of getNews that may fail over these rows
QueryFailures(rows, query) ==
    {"nil", "Query", "Err"}
        \cup (IF Selected(rows, query) # <<>> THEN {"Scan"} ELSE {})

----------------------------------------------------------------------------
(* The updater goroutine of a rule *)

\* updateNews once loadNewsList returned: log.Fatal on its error, else
\* the loop over the items
updateNewsLoaded(r, doc, loaded) ==
    IF loaded.err # "nil"
    THEN /\ task' = [task EXCEPT ![r].pc = "Fatal", ![r].doc = doc,
                                 ![r].err = loaded.err]
         /\ exit' = "updateNews"
    ELSE /\ task' = [task EXCEPT ![r].pc = "insert", ![r].items = loaded.items]
         /\ exit' = exit

\* updateNews up to its loop
updateNewsLoad(r) ==
    /\ Running /\ task[r].pc = "updateNews"
    /\ \E load \in Loads[parsingRules[r]] :
          updateNewsLoaded(r, load.doc, load.loaded)
    /\ UNCHANGED <<mainPc, parsingRules, db, news, clock, tick, request, seen, call>>

\* one round of updateNews's loop: insertNewsItem, its error only logged
updateNewsInsert(r) ==
    /\ Running /\ task[r].pc = "insert" /\ task[r].i < Len(task[r].items)
    /\ \E ioErr \in BOOLEAN :
          LET res == insertNewsItem(news, task[r].items[task[r].i + 1], clock, ioErr)
          IN  /\ news' = res.news
              /\ task' = [task EXCEPT ![r].i = @ + 1, ![r].err = res.err]
    /\ UNCHANGED <<mainPc, exit, parsingRules, db, clock, tick, request, seen, call>>

\* updateNews with a loop that returns on the first error of an insert
updateNewsReturnOnError(r) ==
    /\ Running /\ task[r].pc = "insert"
    /\ task[r].i = Len(task[r].items) \/ task[r].err # "nil"
    /\ IF ~task[r].ticker /\ parsingRules[r].Interval = 0
       THEN /\ task' = [task EXCEPT ![r] = Idle("panic", FALSE)]
            /\ exit' = "NewTicker"
       ELSE /\ task' = [task EXCEPT ![r] = Idle("select", TRUE)]
            /\ exit' = exit
    /\ UNCHANGED <<mainPc, parsingRules, db, news, clock, tick, request, seen, call>>

\* updateNews returns to updateNewsPeriodically: after the first call
\* time.NewTicker, which panics on an interval of zero; then the select
updateNewsReturn(r) ==
    /\ Running /\ task[r].pc = "insert" /\ task[r].i = Len(task[r].items)
    /\ IF ~task[r].ticker /\ parsingRules[r].Interval = 0
       THEN /\ task' = [task EXCEPT ![r] = Idle("panic", FALSE)]
            /\ exit' = "NewTicker"
       ELSE /\ task' = [task EXCEPT ![r] = Idle("select", TRUE)]
            /\ exit' = exit
    /\ UNCHANGED <<mainPc, parsingRules, db, news, clock, tick, request, seen, call>>

\* a timer that calls updateNews itself at every tick, whatever the
\* goroutine of the rule is doing
tickerCallsUpdateNews(r) ==
    /\ Running /\ task[r].ticker
    /\ task' = [task EXCEPT ![r] = Idle("updateNews", TRUE)]
    /\ UNCHANGED <<mainPc, exit, parsingRules, db, news, clock, tick, request, seen, call>>

\* the ticker of rule r fires: ticker.C holds one tick, a second is dropped
tickerFires(r) ==
    /\ Running /\ task[r].ticker
    /\ tick' = [tick EXCEPT ![r] = TRUE]
    /\ UNCHANGED <<mainPc, exit, parsingRules, db, news, clock, task, request, seen, call>>

\* a select whose case <-ticker.C takes the tick and calls nothing
receiveTickOnly(r) ==
    /\ Running /\ task[r].pc = "select" /\ tick[r]
    /\ tick' = [tick EXCEPT ![r] = FALSE]
    /\ UNCHANGED <<mainPc, exit, parsingRules, db, news, clock, task, request, seen, call>>

\* case <-ticker.C: the goroutine takes the tick and calls updateNews
receiveTick(r) ==
    /\ Running /\ task[r].pc = "select" /\ tick[r]
    /\ tick' = [tick EXCEPT ![r] = FALSE]
    /\ task' = [task EXCEPT ![r].pc = "updateNews"]
    /\ UNCHANGED <<mainPc, exit, parsingRules, db, news, clock, request, seen, call>>

\* a second passes
clockTick ==
    /\ Running /\ clock < MaxClock
    /\ clock' = clock + 1
    /\ UNCHANGED <<mainPc, exit, parsingRules, db, news, task, tick, request, seen, call>>

----------------------------------------------------------------------------
(* The search handler *)

\* a handler that drops the error of getNews and writes what it got
searchResponseErrDropped(parseOk, got) ==
    IF ~parseOk
    THEN [pc |-> "done", err |-> "ParseForm", status |-> 500, items |-> <<>>,
          text |-> "ParseForm"]
    ELSE [pc |-> "done", err |-> got.err, status |-> 200, items |-> got.items,
          text |-> "nil"]

\* searchHandler's response, given ParseForm's and getNews's results:
\* http.Error writes err.Error() as plain text with status 500
searchResponse(parseOk, got) ==
    IF ~parseOk
    THEN [pc |-> "done", err |-> "ParseForm", status |-> 500, items |-> <<>>,
          text |-> "ParseForm"]
    ELSE IF got.err # "nil"
    THEN [pc |-> "done", err |-> got.err, status |-> 500, items |-> <<>>,
          text |-> got.err]
    ELSE [pc |-> "done", err |-> "nil", status |-> 200, items |-> got.items,
          text |-> "nil"]

\* searchHandler serves GET /news?q=query
searchHandler ==
    /\ Running /\ mainPc = "serving" /\ request.pc = "none"
    /\ \E query \in Terms, parseOk \in BOOLEAN :
       \E fail \in QueryFailures(news, query) :
       \E order \in OrderByTimestampDesc(Selected(news, query)) :
          /\ request' = searchResponse(parseOk, getNews(news, query, fail, order))
          /\ seen' = IF request'.status = 200
                     THEN [q |-> query, rows |-> news] ELSE NotSeen
    /\ UNCHANGED <<mainPc, exit, parsingRules, db, news, clock, task, tick, call>>

\* the client has the response
requestDone ==
    /\ Running /\ request.pc = "done"
    /\ request' = NoRequest
    /\ seen' = NotSeen
    /\ UNCHANGED <<mainPc, exit, parsingRules, db, news, clock, task, tick, call>>

----------------------------------------------------------------------------
(* The program *)

Next ==
    \/ readParsingRules
    \/ openDatabase
    \/ startUpdaters
    \/ ListenAndServe
    \/ \E r \in RuleIds : updateNewsLoad(r)
    \/ \E r \in RuleIds : updateNewsInsert(r)
    \/ \E r \in RuleIds : updateNewsReturn(r)
    \/ \E r \in RuleIds : tickerFires(r)
    \/ \E r \in RuleIds : receiveTick(r)
    \/ clockTick
    \/ searchHandler
    \/ requestDone

Spec == Init /\ [][Next]_vars

\* what Go's scheduling gives: main's goroutine and every updater goroutine
\* that can take a step takes one (a fetch or an insert in progress ends),
\* and the runtime's timer sends the tick of a ticker when it is due
Fairness ==
    /\ WF_vars(readParsingRules)
    /\ WF_vars(openDatabase)
    /\ WF_vars(startUpdaters)
    /\ \A r \in RuleIds :
          /\ WF_vars(updateNewsLoad(r))
          /\ WF_vars(updateNewsInsert(r))
          /\ WF_vars(updateNewsReturn(r))
          /\ WF_vars(tickerFires(r))
          /\ WF_vars(receiveTick(r))

FairSpec == Spec /\ Fairness

----------------------------------------------------------------------------
(* convertToAbsURL and loadNewsList, called by themselves *)

urlExampleIndex == <<"h","t","t","p",":","/","/","e","x","a","m","p","l","e",".","c","o","m","/","n","e","w","s","/","i","n","d","e","x",".","h","t","m","l">>
urlExampleArticle == <<"h","t","t","p",":","/","/","e","x","a","m","p","l","e",".","c","o","m","/","n","e","w","s","/","a","r","t","i","c","l","e","/","1">>
urlOtherX == <<"h","t","t","p",":","/","/","o","t","h","e","r",".","c","o","m","/","x">>
urlDir == <<"h","t","t","p",":","/","/","e","/","n","/">>
urlHost == <<"h","t","t","p",":","/","/","e">>
urlDotDot == <<"h","t","t","p",":","/","/","e","/","n","/","i","/",".",".">>
urlQueryFragment == <<"h","t","t","p",":","/","/","e","/","n","/","i","?","q","#","f">>
sArticle1 == <<"a","r","t","i","c","l","e","/","1">>
sAbsPath == <<"/","a">>
sParent == <<".",".","/","a">>
sCurrent == <<".","/","a">>
sNetPath == <<"/","/","o","/","x">>
sQuery == <<"?","q">>
sFragment == <<"#","f">>
sDotted == <<"a","/",".",".","/","b">>

\* the source URLs of the calls, all absolute
BaseURLs ==
    { urlExampleIndex, urlPageI, urlDir, urlHost, urlDotDot, urlQueryFragment }

\* the raw links of the calls
LinkURLs ==
    { sArticle1, urlOtherX, urlArticleA, <<>>, sA, sAbsPath, sParent, sCurrent,
      sNetPath, sQuery, sFragment, sDotted, sBadEscape }

\* the elements of the pages of the calls, and the pages: up to MaxNodes
\* elements each
AnyNodes == { NodeRelX, NodeAbsY, NodeNoHref, NodeBad, NodeEmpty, NodeNav }
MaxNodes == 2
AnyPages == UNION { [1..n -> AnyNodes] : n \in 0..MaxNodes }

\* a call convertToAbsURL(baseURL, linkURL)
callConvertToAbsURL ==
    /\ call.fn = "none"
    /\ \E baseURL \in BaseURLs, linkURL \in LinkURLs :
          call' = [fn |-> "convertToAbsURL", baseURL |-> baseURL,
                   linkURL |-> linkURL, doc |-> <<>>,
                   ret |-> convertToAbsURL(baseURL, linkURL)]
    /\ UNCHANGED <<mainPc, exit, parsingRules, db, news, clock, task, tick,
                   request, seen>>

\* a call loadNewsList(rule) whose fetch returned the page doc
callLoadNewsList ==
    /\ call.fn = "none"
    /\ \E doc \in AnyPages :
          call' = [fn |-> "loadNewsList", baseURL |-> urlPageI,
                   linkURL |-> <<>>, doc |-> doc,
                   ret |-> loadNewsList(Rule(1, urlPageI),
                                        [err |-> FALSE, doc |-> doc])]
    /\ UNCHANGED <<mainPc, exit, parsingRules, db, news, clock, task, tick,
                   request, seen>>

\* the call has returned
callReturn ==
    /\ call.fn # "none"
    /\ call' = NoCall
    /\ UNCHANGED <<mainPc, exit, parsingRules, db, news, clock, task, tick,
                   request, seen>>

Calls ==
    \/ callConvertToAbsURL
    \/ callLoadNewsList
    \/ callReturn

CallSpec == Init /\ [][Calls]_vars

----------------------------------------------------------------------------
(* What the claims read off a state *)

\* the places of the rows of a link
RowsOf(rows, link) == {i \in 1..Len(rows) : rows[i].link = link}

\* the goroutine of rule r is in updateNews's loop
InLoop(r) == task[r].pc = "insert"

\* the item the loop of rule r took last, once it took one
LastItem(r) == task[r].items[task[r].i]

\* the item the loop of rule r takes next
NextItem(r) == task[r].items[task[r].i + 1]

\* this step is a call of insertNewsItem by the goroutine of rule r
InsertCall(r) ==
    /\ InLoop(r) /\ task[r].i < Len(task[r].items)
    /\ task'[r].i = task[r].i + 1

----------------------------------------------------------------------------
(* C1.  Idempotent insert: an insert of an item x whose link the store     *)
(* holds leaves every row as it is, so that after insert(x), insert(x)     *)
(* there is exactly one row of x.link, with the title and the firstSeen    *)
(* that the first insert gave it; the first insert of a link (one the      *)
(* engine carries out) adds exactly one row, with x's title and the        *)
(* current time as firstSeen.                                              *)
C1_IdempotentInsert ==
    [][\A r \in RuleIds :
          InsertCall(r) =>
             /\ RowsOf(news, NextItem(r).Link) # {} =>
                   /\ news' = news
                   /\ Cardinality(RowsOf(news', NextItem(r).Link)) = 1
             /\ (RowsOf(news, NextItem(r).Link) = {} /\ task'[r].err # "io") =>
                   /\ Cardinality(RowsOf(news', NextItem(r).Link)) = 1
                   /\ \A k \in RowsOf(news', NextItem(r).Link) :
                         /\ news'[k].title = NextItem(r).Title
                         /\ news'[k].timestamp = clock
                   /\ SubSeq(news', 1, Len(news)) = news]_vars

\* a second insert of a link was refused at a later second and with another
\* title, and the one row of the link has the first title and firstSeen
C1_Witness ==
    \E r \in RuleIds :
       /\ InLoop(r) /\ task[r].i > 0 /\ task[r].err = "unique"
       /\ \E k \in RowsOf(news, LastItem(r).Link) :
             /\ news[k].title # LastItem(r).Title
             /\ news[k].timestamp < clock

(* C2.  In every reachable state the store holds at most one row per link, *)
(* whatever the interleaving of the updater goroutines.                    *)
C2_UniqueLinks ==
    \A i, j \in 1..Len(news) : i # j => news[i].link # news[j].link

\* the goroutines of two rules are in their loops at once, one has just
\* inserted a link and the other has just been refused the same link
C2_Witness ==
    \E r1, r2 \in RuleIds :
       /\ r1 # r2 /\ InLoop(r1) /\ InLoop(r2)
       /\ task[r1].i > 0 /\ task[r2].i > 0
       /\ task[r1].err = "nil" /\ task[r2].err = "unique"
       /\ LastItem(r1).Link = LastItem(r2).Link
       /\ Cardinality(RowsOf(news, LastItem(r1).Link)) = 1

\* the errors loadNewsList returns
LoadErrors == {"LoadURL", "convertToAbsURL"}

\* a step the goroutine of rule r or its ticker can take
TaskStep(r) ==
    \/ updateNewsLoad(r)
    \/ updateNewsInsert(r)
    \/ updateNewsReturn(r)
    \/ receiveTick(r)
    \/ tickerFires(r)

(* C3.  A failed load (fetch or extraction) ends the cycle early and       *)
(* returns the goroutine of the rule to its select: the process keeps      *)
(* running and the goroutine has no terminal or error state.               *)
C3_LoadFailureReturnsToIdle ==
    \A r \in RuleIds :
       task[r].err \in LoadErrors => (exit = "none" /\ task[r].pc = "select")

(* C4.  Cycle isolation: when the load of a rule A has failed, the         *)
(* goroutine of every other started rule B can still take its next step    *)
(* (its ticker fires, its cycle starts, its items are inserted).           *)
C4_CycleIsolation ==
    \A a, b \in RuleIds :
       (a # b /\ task[a].err \in LoadErrors /\ task[b].pc # "none")
          => ENABLED TaskStep(b)

\* the items loadNewsNodes would make of the nodes whose link converts
RECURSIVE GoodItems(_, _)
GoodItem(rule, nodes, abs, title) ==
    (IF abs.err THEN <<>> ELSE <<[Link |-> abs.url, Title |-> title]>>)
        \o GoodItems(rule, Tail(nodes))

GoodItems(rule, nodes) ==
    IF nodes = <<>> THEN <<>>
    ELSE GoodItem(rule, nodes,
             convertToAbsURL(rule.URL, extractEntity(Head(nodes), rule.LinkRule)),
             extractEntity(Head(nodes), rule.TitleRule))

(* C5.  Item isolation within a cycle: when the link of one item of a page *)
(* does not convert, the cycle still stores every other item of the page,  *)
(* before or after the bad one: once the cycle has no item left to insert, *)
(* the store holds the link of each of them.                               *)
C5_ItemIsolation ==
    \A r \in RuleIds :
       (task[r].err = "convertToAbsURL" /\ task[r].i = Len(task[r].items))
          => \A k \in 1..Len(GoodItems(parsingRules[r],
                                       Find(task[r].doc, parsingRules[r].NewsNodesXPathExpr))) :
                RowsOf(news, GoodItems(parsingRules[r],
                                       Find(task[r].doc, parsingRules[r].NewsNodesXPathExpr))[k].Link) # {}

\* the last insert of the loop of rule r failed
InsertFailed(r) == InLoop(r) /\ task[r].i > 0 /\ task[r].err # "nil"

(* C6.  A failed insert of one item of a cycle (a duplicate link, or the   *)
(* engine failing) does not affect the other items of the cycle: the       *)
(* goroutine stays able to go on; its next step takes the next item of the *)
(* batch and, if that item's link is new and its own insert does not fail, *)
(* stores it; after the last item updateNews returns and the goroutine     *)
(* waits in its select (a rule of interval zero panics in time.NewTicker   *)
(* there, failed insert or not).                                           *)
C6_StoreFailureIsolated ==
    /\ [](\A r \in RuleIds :
             (InsertFailed(r) /\ Running)
                => ENABLED (updateNewsInsert(r) \/ updateNewsReturn(r)))
    /\ [][\A r \in RuleIds :
             (InsertFailed(r) /\ task'[r] # task[r]) =>
                IF task[r].i < Len(task[r].items)
                THEN /\ task'[r].pc = "insert"
                     /\ task'[r].items = task[r].items
                     /\ task'[r].i = task[r].i + 1
                     /\ exit' = exit
                     /\ (RowsOf(news, NextItem(r).Link) = {} /\ task'[r].err # "io")
                           => /\ task'[r].err = "nil"
                              /\ \E k \in RowsOf(news', NextItem(r).Link) :
                                    news'[k].title = NextItem(r).Title
                ELSE \/ task'[r].pc = "select" /\ exit' = exit
                     \/ ~task[r].ticker /\ parsingRules[r].Interval = 0]_vars

\* in one cycle an earlier item was refused (the row of its link has another
\* title) and a later item, whose link was new, has just been stored
C6_Witness ==
    \E r \in RuleIds :
       /\ InLoop(r) /\ task[r].i > 1 /\ task[r].err = "nil"
       /\ \E k \in RowsOf(news, LastItem(r).Link) :
             news[k].title = LastItem(r).Title
       /\ \E j \in 1..(task[r].i - 1) :
             \E k \in RowsOf(news, task[r].items[j].Link) :
                news[k].title # task[r].items[j].Title

\* rule r is one of the rules read from the file
Configured(r) == r <= Len(parsingRules)

(* C7.  The goroutine of every rule calls updateNews at once when it is    *)
(* started, before any tick, and then again and again: as long as the      *)
(* process runs, the goroutine of every configured rule is infinitely      *)
(* often about to call updateNews and infinitely often back in its select, *)
(* the cycle over (every step of a cycle ending, and the ticker firing     *)
(* when it is due).                                                        *)
C7_CyclesForever ==
    /\ [][(mainPc = "startUpdaters" /\ mainPc' # mainPc)
             => \A r \in RuleIds :
                   Configured(r) => (task'[r].pc = "updateNews" /\ ~task'[r].ticker)]_vars
    /\ \A r \in RuleIds :
          Configured(r) ~> (exit # "none" \/ task[r].pc = "updateNews")
    /\ \A r \in RuleIds :
          Configured(r) ~> (exit # "none" \/ task[r].pc = "select")

\* a tick has started a cycle of a rule: its ticker exists, its first cycle
\* is over and, the tick taken, updateNews is about to run again
C7_Witness ==
    \E r \in RuleIds :
       /\ Configured(r) /\ Running
       /\ task[r].ticker /\ task[r].pc = "updateNews" /\ ~tick[r]

\* the firstSeen of the row of a link
FirstSeen(rows, link) ==
    rows[CHOOSE k \in RowsOf(rows, link) : TRUE].timestamp

(* C8.  Query ordering: the items of a 200 response, for no term and for   *)
(* any term, are in descending order of the firstSeen of their rows: an    *)
(* item never comes before one of a later firstSeen, so that rows of       *)
(* distinct firstSeen come strictly newest first; the handler writes the   *)
(* items in the order getNews returned them.                               *)
C8_QueryOrdering ==
    request.status = 200 =>
       \A i, j \in 1..Len(request.items) :
          i < j =>
             /\ RowsOf(seen.rows, request.items[i].Link) # {}
             /\ RowsOf(seen.rows, request.items[j].Link) # {}
             /\ FirstSeen(seen.rows, request.items[i].Link)
                   >= FirstSeen(seen.rows, request.items[j].Link)

\* a response to a request without term lists two rows of distinct firstSeen,
\* the later inserted one first
C8_Witness ==
    /\ request.status = 200 /\ seen.q = <<>>
    /\ Len(request.items) = 2 /\ Len(seen.rows) = 2
    /\ request.items[1].Link = seen.rows[2].link
    /\ request.items[2].Link = seen.rows[1].link
    /\ seen.rows[2].timestamp > seen.rows[1].timestamp

\* term occurs in title
Contains(title, term) ==
    \E k \in 0..(Len(title) - Len(term)) :
       \A m \in 1..Len(term) : title[k + m] = term[m]

\* the items of the rows a term selects: all for the empty term
Matching(rows, term) ==
    {[Link |-> rows[k].link, Title |-> rows[k].title] :
        k \in {n \in 1..Len(rows) : term = <<>> \/ Contains(rows[n].title, term)}}

(* C9.  Substring filter: a 200 response to a non-empty term lists exactly *)
(* the stored items whose title contains the term, each once; a response   *)
(* to the empty term (the handler reads an absent q as the empty string)   *)
(* lists every stored item.                                                *)
C9_SubstringFilter ==
    request.status = 200 =>
       /\ {request.items[i] : i \in 1..Len(request.items)}
             = Matching(seen.rows, seen.q)
       /\ Len(request.items) = Cardinality(Matching(seen.rows, seen.q))

\* a response to a term lists the one row whose title holds the term past its
\* first character and leaves out the row whose title does not hold it
C9_Witness ==
    /\ request.status = 200 /\ seen.q # <<>>
    /\ Len(request.items) = 1 /\ Len(seen.rows) = 2
    /\ Contains(request.items[1].Title, seen.q)
    /\ ~HasPrefix(request.items[1].Title, seen.q)
    /\ \E k \in 1..2 : ~Contains(seen.rows[k].title, seen.q)

\* the errors getNews returns
QueryErrors == {"Query", "Scan", "Err"}

(* C10.  When getNews fails, the response has status 500, the error's text *)
(* as its body and no item, and the handler's step ends neither the        *)
(* process nor an updater goroutine: it leaves them, their tickers and the *)
(* store as they are.                                                      *)
C10_QueryFailureIs500 ==
    /\ [](request.err \in QueryErrors
             => /\ request.status = 500
                /\ request.text = request.err
                /\ request.items = <<>>)
    /\ [][(request.pc = "none" /\ request'.pc = "done")
             => UNCHANGED <<mainPc, exit, task, tick, news, db>>]_vars

\* a scan of rows that the query selected failed while an updater goroutine
\* was in its loop: the response is a 500 without items, the process runs
C10_Witness ==
    /\ request.err = "Scan" /\ request.status = 500 /\ request.items = <<>>
    /\ news # <<>> /\ Running
    /\ \E r \in RuleIds : InLoop(r) /\ task[r].i < Len(task[r].items)

(* C11.  Rule loading fails when an entry has an interval of zero: once    *)
(* readParsingRules has returned without error every rule it read has a    *)
(* positive interval, and no goroutine is started for a rule of interval   *)
(* zero.                                                                   *)
C11_ZeroIntervalIsConfigError ==
    /\ (Running /\ mainPc # "readParsingRules")
          => \A k \in 1..Len(parsingRules) : parsingRules[k].Interval > 0
    /\ \A r \in RuleIds :
          task[r].pc # "none" => parsingRules[r].Interval > 0

(* C12.  Startup ordering: when readParsingRules fails the process ends    *)
(* with nothing started; a goroutine of a rule exists, the server listens  *)
(* or a request is handled only after readParsingRules and openDatabase    *)
(* have both returned without error, so that app.db is open in every state *)
(* in which an updater inserts or the handler queries.                     *)
C12_StartupOrdering ==
    /\ exit \in {"readParsingRules", "openDatabase"}
          => /\ \A r \in RuleIds : task[r].pc = "none"
             /\ request.pc = "none" /\ news = <<>>
             /\ mainPc \in {"readParsingRules", "openDatabase"}
    /\ ((\E r \in RuleIds : task[r].pc # "none")
           \/ request.pc # "none"
           \/ mainPc \in {"ListenAndServe", "serving"})
          => /\ db = "open"
             /\ mainPc \notin {"readParsingRules", "openDatabase"}
             /\ parsingRules # <<>>

\* an updater has inserted a row and the handler has answered a request from
\* the open store
C12_Witness ==
    /\ db = "open" /\ mainPc = "serving"
    /\ request.status = 200 /\ request.items # <<>>
    /\ \E r \in RuleIds : InLoop(r) /\ task[r].i > 0 /\ task[r].err = "nil"

\* relative-URL resolution: the base URL, parsed by itself, resolves the
\* parsed link
Resolved(baseURL, linkURL) ==
    urlString(ResolveReference(urlParse(baseURL), urlParse(linkURL)))

(* C13.  URL normalization: for every absolute sourceURL and every raw     *)
(* link that parses, convertToAbsURL returns no error; it returns a link   *)
(* that has a scheme verbatim and every other link resolved against        *)
(* sourceURL by relative-URL resolution; base                              *)
(* http://example.com/news/index.html with raw link article/1 gives        *)
(* http://example.com/news/article/1.                                      *)
C13_URLNormalization ==
    (call.fn = "convertToAbsURL" /\ ~urlParse(call.linkURL).err)
       => /\ ~call.ret.err
          /\ call.ret.url =
                IF IsAbs(urlParse(call.linkURL)) THEN call.linkURL
                ELSE Resolved(call.baseURL, call.linkURL)
          /\ (call.baseURL = urlExampleIndex /\ call.linkURL = sArticle1)
                => call.ret.url = urlExampleArticle

(* C14.  Extraction: loadNewsList returns exactly one item for each        *)
(* selected item node whose link converts without error, in document       *)
(* order, with the converted link and the extracted title; a node whose    *)
(* link or title is empty still gives its item.                            *)
C14_OneItemPerNode ==
    call.fn = "loadNewsList"
       => call.ret.items
             = GoodItems(Rule(1, call.baseURL),
                         Find(call.doc, Rule(1, call.baseURL).NewsNodesXPathExpr))

(* C15.  A query that runs while the updaters insert is safe: as long as   *)
(* its response is in flight, inserts going on meanwhile, every item of    *)
(* the response is the link and the title of one row of the store as it is *)
(* now, and no link is in the response twice.                              *)
C15_ConcurrentQuerySafe ==
    request.status = 200 =>
       /\ \A i \in 1..Len(request.items) :
             \E k \in 1..Len(news) :
                /\ news[k].link = request.items[i].Link
                /\ news[k].title = request.items[i].Title
       /\ \A i, j \in 1..Len(request.items) :
             i # j => request.items[i].Link # request.items[j].Link

\* a response that lists a row is in flight, and since the query read the
\* store the goroutines of two rules have gone on: one has added a row, the
\* other is in its loop
C15_Witness ==
    /\ request.status = 200 /\ request.items # <<>>
    /\ Len(news) > Len(seen.rows)
    /\ \E r1, r2 \in RuleIds :
          /\ r1 # r2 /\ InLoop(r1) /\ InLoop(r2)
          /\ task[r1].i > 0 /\ task[r1].err = "nil"
          /\ news[Len(news)].link = LastItem(r1).Link

(* C16.  Every row of the store has a link that is an absolute URL (it     *)
(* parses and has a scheme), the sourceURL of every rule being absolute,   *)
(* also the row of an item node whose link rule found nothing, whose raw   *)
(* link is the empty string.                                               *)
C16_StoredLinksAbsolute ==
    \A k \in 1..Len(news) :
       /\ ~urlParse(news[k].link).err
       /\ IsAbs(urlParse(news[k].link))

\* the store holds the row of an item node without href: its link is the
\* URL of the page, and the rule that stored it has an absolute URL
C16_Witness ==
    \E r \in RuleIds :
       /\ Configured(r) /\ IsAbs(urlParse(parsingRules[r].URL))
       /\ InLoop(r) /\ task[r].i > 0 /\ task[r].err = "nil"
       /\ LastItem(r) = [Link |-> parsingRules[r].URL, Title |-> sXY]
       /\ RowsOf(news, parsingRules[r].URL) # {}

(* C17.  The store is append-only: no step deletes a row or changes the    *)
(* link, the title or the firstSeen of a row, so that the rows there were  *)
(* stay the first rows of the table, and what a query for a term would     *)
(* return after the step contains every item it would have returned        *)
(* before.                                                                 *)
C17_AppendOnly ==
    [][/\ Len(news') >= Len(news)
       /\ SubSeq(news', 1, Len(news)) = news
       /\ \A term \in Terms : Matching(news, term) \subseteq Matching(news', term)]_vars

\* a second row has come after a request was answered from the first, and an
\* insert of a stored link with another title has been refused since
C17_Witness ==
    /\ Len(news) = 2 /\ news[1].timestamp < news[2].timestamp
    /\ request.status = 200 /\ seen.rows = <<news[1]>>
    /\ \E r \in RuleIds :
          /\ InLoop(r) /\ task[r].i > 0 /\ task[r].err = "unique"
          /\ \E k \in RowsOf(news, LastItem(r).Link) :
                news[k].title # LastItem(r).Title

\* the goroutine of rule r is in a cycle: in updateNews
InCycle(r) == task[r].pc \in {"updateNews", "insert"}

(* C18.  The cycles of one rule never overlap: a tick that arrives while   *)
(* the goroutine of a rule is in a cycle changes nothing of the goroutine; *)
(* a cycle starts only when the goroutine is started or when, waiting in   *)
(* its select, it takes a tick; and a cycle in its loop goes through its   *)
(* one batch item by item.                                                 *)
C18_CyclesNeverOverlap ==
    [][\A r \in RuleIds :
          /\ (InCycle(r) /\ tick'[r] /\ ~tick[r]) => task'[r] = task[r]
          /\ (task'[r].pc = "updateNews" /\ task'[r] # task[r])
                => \/ task[r].pc = "none"
                   \/ task[r].pc = "select" /\ tick[r] /\ ~tick'[r]
          /\ (task[r].pc = "insert" /\ task'[r].pc = "insert")
                => /\ task'[r].items = task[r].items
                   /\ task'[r].i \in {task[r].i, task[r].i + 1}]_vars

\* a tick waits in the channel while the goroutine of its rule is in the
\* middle of the loop of a later cycle
C18_Witness ==
    \E r \in RuleIds :
       /\ task[r].pc = "insert" /\ task[r].ticker /\ tick[r]
       /\ task[r].i > 0 /\ task[r].i < Len(task[r].items)

====
